---- MODULE Spec2Model ----
(***************************************************************************)
(* RepoView backend relay (apps/backend/api/index.py).                     *)
(*                                                                         *)
(* The server keeps no state of its own: the state is the external secret  *)
(* store (one record per session token), the server clock that the signed  *)
(* token codec reads, and the uuid source.  Every HTTP request is one      *)
(* action that runs the whole handler and leaves the request, the          *)
(* environment's answers and the response in `last`.                       *)
(*                                                                         *)
(* Text values (query parameters, header words, secret names and secret    *)
(* values) are sequences of segments: the empty string is <<>>, a plain    *)
(* word w is <<w>>, and a serialized session token is the three segments   *)
(* <<payload, timestamp, signature>> that itsdangerous joins with dots.    *)
(* Time is counted in whole seconds, the unit of the codec's timestamps.   *)
(*                                                                         *)
(* Spec takes every request as one step.  SpecC takes the same handlers    *)
(* one external call at a time (store read, code exchange, store write),   *)
(* with requests of several workers in flight and the clock moving between *)
(* their calls.                                                            *)
(***************************************************************************)
EXTENDS Integers, Sequences, FiniteSets, TLC

\* ------------------------------------------------------------- bounds
MaxSessions == 2      \* POST /authorize requests in one behaviour
MaxClock == 601       \* last second the clock reaches

\* ------------------------------------------------ program constants
MaxAge == 600                         \* serializer.loads(state, max_age=600)
SECRET_KEY == "SECRET_KEY"            \* environ["SECRET_KEY"]
OtherKey == "not-the-server-key"      \* any key a client may sign with
Sentinel == <<"null">>                \* SecretString="null"
Empty == <<>>                         \* the empty string ""
Space == <<" ">>
Bearer == <<"Bearer">>
GITHUB_CLIENT_ID == "GITHUB_CLIENT_ID"
Scope == "public_repo"
CallbackUrl == "http://localhost:8080/callback"

\* clock advances between requests, in steps that make an age of exactly
\* MaxAge and of MaxAge + 1 both happen
TickSteps == {MaxAge, MaxAge + 1}

\* access tokens the identity provider issues, codes a browser brings back
AccessTokens == {<<"tok123">>, <<"tok456">>}
Codes == {<<"validcode">>, <<"x">>}
Garbage == <<"garbage">>
CommitShas == {<<"abc123">>}
Branches == {<<"main">>}

\* Python values that may be None
None == [isNone |-> TRUE, v |-> Empty]
Some(x) == [isNone |-> FALSE, v |-> x]

\* a request parameter or header that may be absent
Absent == [present |-> FALSE, v |-> Empty]
Given(x) == [present |-> TRUE, v |-> x]

VARIABLES
    clock,      \* int(time.time()) of the server
    store,      \* the secret store: secret name -> [SecretString |-> value]
    nextId,     \* the next uuid4 the server draws
    minted,     \* session tokens serializer.dumps has produced so far
    returned,   \* session_ids sent to a client in a 200 body of /authorize
    completed,  \* states for which a GET /callback has answered 200
    last,       \* the last request, what the environment answered, the response
    inflight    \* SpecC: per worker, the request it is handling and where it is

vars == <<clock, store, nextId, minted, returned, completed, last, inflight>>

\* the workers that serve requests side by side
Workers == {"w1", "w2"}
Idle == [kind |-> "idle", key |-> Empty, pc |-> "-", token |-> None]

\* ---------------------------------------------- signed token codec
\* HMAC over payload and timestamp under a key: equal only for equal inputs
Sign(key, payload, ts) == <<key, payload, ts>>

\* serializer.dumps(str(uuid4())) at second `now`
dumps(payload, now) == <<payload, now, Sign(SECRET_KEY, payload, now)>>

\* loads with the age limit off by one: a token of exactly max_age is refused
loads_age_off_by_one(s, now, max_age) ==
    IF Len(s) # 3
    THEN [ok |-> FALSE, exc |-> "BadSignature", payload |-> 0]
    ELSE IF s[3] # Sign(SECRET_KEY, s[1], s[2])
    THEN [ok |-> FALSE, exc |-> "BadSignature", payload |-> 0]
    ELSE IF now - s[2] >= max_age \/ now - s[2] < 0
    THEN [ok |-> FALSE, exc |-> "SignatureExpired", payload |-> 0]
    ELSE [ok |-> TRUE, exc |-> "", payload |-> s[1]]

\* loads called without max_age: the signature is verified, the age is not
loads_without_max_age(s, now, max_age) ==
    IF Len(s) # 3
    THEN [ok |-> FALSE, exc |-> "BadSignature", payload |-> 0]
    ELSE IF s[3] # Sign(SECRET_KEY, s[1], s[2])
    THEN [ok |-> FALSE, exc |-> "BadSignature", payload |-> 0]
    ELSE [ok |-> TRUE, exc |-> "", payload |-> s[1]]

\* serializer.loads(s, max_age): the signature is verified first, then the age
loads(s, now, max_age) ==
    IF Len(s) # 3
    THEN [ok |-> FALSE, exc |-> "BadSignature", payload |-> 0]
    ELSE IF s[3] # Sign(SECRET_KEY, s[1], s[2])
    THEN [ok |-> FALSE, exc |-> "BadSignature", payload |-> 0]
    ELSE IF now - s[2] > max_age \/ now - s[2] < 0
    THEN [ok |-> FALSE, exc |-> "SignatureExpired", payload |-> 0]
    ELSE [ok |-> TRUE, exc |-> "", payload |-> s[1]]

\* ---------------------------------------------- secret store client
\* create_secret that raises after the backend has stored the record
create_secret_raises_after_write(st, name, value, up) ==
    IF name \in DOMAIN st
    THEN [raised |-> TRUE, store |-> st]
    ELSE [raised |-> ~up,
          store |-> [k \in DOMAIN st \cup {name} |->
                        IF k = name THEN [SecretString |-> value] ELSE st[k]]]

\* aws_client.create_secret(Name, SecretString): raises when the backend is
\* unreachable or the name is taken
create_secret(st, name, value, up) ==
    IF ~up \/ name \in DOMAIN st
    THEN [raised |-> TRUE, store |-> st]
    ELSE [raised |-> FALSE,
          store |-> [k \in DOMAIN st \cup {name} |->
                        IF k = name THEN [SecretString |-> value] ELSE st[k]]]

\* get_secret_value answering an empty secret where it should raise
get_secret_value_never_raises(st, id) ==
    IF id \in DOMAIN st
    THEN [raised |-> FALSE, secret |-> st[id]]
    ELSE [raised |-> FALSE, secret |-> [SecretString |-> Empty]]

\* aws_client.get_secret_value(SecretId): raises when there is no such secret
get_secret_value(st, id) ==
    IF id \in DOMAIN st
    THEN [raised |-> FALSE, secret |-> st[id]]
    ELSE [raised |-> TRUE, secret |-> [SecretString |-> Empty]]

\* put_secret_value handed str(None) formatted as "null" instead of None
put_secret_value_none_as_null(st, id, value, up) ==
    IF ~up \/ id \notin DOMAIN st
    THEN [raised |-> TRUE, store |-> st]
    ELSE [raised |-> FALSE,
          store |-> [st EXCEPT ![id] = [SecretString |->
                                          IF value.isNone THEN Sentinel ELSE value.v]]]

\* put_secret_value that ignores SecretId and writes every record
put_secret_value_ignores_id(st, id, value, up) ==
    IF value.isNone \/ ~up \/ id \notin DOMAIN st
    THEN [raised |-> TRUE, store |-> st]
    ELSE [raised |-> FALSE,
          store |-> [k \in DOMAIN st |-> [SecretString |-> value.v]]]

\* put_secret_value that raises after the backend has stored the value
put_secret_value_raises_after_write(st, id, value, up) ==
    IF value.isNone \/ id \notin DOMAIN st
    THEN [raised |-> TRUE, store |-> st]
    ELSE [raised |-> ~up,
          store |-> [st EXCEPT ![id] = [SecretString |-> value.v]]]

\* aws_client.put_secret_value(SecretId, SecretString): the client validates
\* its parameters first (SecretString must be a str, None raises
\* ParamValidationError), then the backend may reject the write
put_secret_value(st, id, value, up) ==
    IF value.isNone \/ ~up \/ id \notin DOMAIN st
    THEN [raised |-> TRUE, store |-> st]
    ELSE [raised |-> FALSE,
          store |-> [st EXCEPT ![id] = [SecretString |-> value.v]]]

\* ------------------------------------------------------- responses
NoEnv == [create |-> "-", idp |-> "-", token |-> None, put |-> "-",
          repo |-> "-", branch |-> "-", default_branch |-> Empty, sha |-> Empty]

NoReq == [state |-> Absent, code |-> Absent, header |-> Absent]

\* the JSON body of /authorize; empty fields when the response carries none
NoJson == [redirect_url |-> [client_id |-> "", redirect_uri |-> "", scope |-> "",
                             state |-> Empty],
           session_id |-> Empty]

Response(endpoint, req, env, now, status, msg, body, steps) ==
    [endpoint |-> endpoint, req |-> req, env |-> env, now |-> now,
     status |-> status, msg |-> msg, body |-> body, steps |-> steps,
     json |-> NoJson, handlerRan |-> FALSE, g_access_token |-> None,
     upstream |-> <<>>]

Init ==
    /\ clock = 0
    /\ store = << >>
    /\ nextId = 1
    /\ minted = {}
    /\ returned = {}
    /\ completed = {}
    /\ last = Response("-", NoReq, NoEnv, 0, 0, "", <<>>, <<>>)
    /\ inflight = [w \in Workers |-> Idle]

\* time passes between requests
Tick ==
    /\ \E d \in TickSteps :
          /\ clock + d <= MaxClock
          /\ clock' = clock + d
    /\ UNCHANGED <<store, nextId, minted, returned, completed, last, inflight>>

\* ---------------------------------------------------- POST /authorize
\* the redirect URL built without the state
github_auth_url_without_state(session_id) ==
    [client_id |-> GITHUB_CLIENT_ID, redirect_uri |-> CallbackUrl,
     scope |-> Scope, state |-> Empty]

\* github_auth_url, the f-string of line 70, as its query parameters
github_auth_url(session_id) ==
    [client_id |-> GITHUB_CLIENT_ID, redirect_uri |-> CallbackUrl,
     scope |-> Scope, state |-> session_id]

authorize(st, uuid, now, up) ==
    LET session_id == dumps(uuid, now)
        created == create_secret(st, session_id, Sentinel, up)
        env == [NoEnv EXCEPT !.create = IF up THEN "ok" ELSE "fail"]
    IN  IF created.raised
        THEN [store |-> created.store, session_id |-> session_id,
              resp |-> Response("authorize", NoReq, env, now, 500,
                                "AWS Secret creation failed", <<>>,
                                <<"mint", "create">>)]
        ELSE [store |-> created.store, session_id |-> session_id,
              resp |-> [Response("authorize", NoReq, env, now, 200, "",
                                 <<github_auth_url(session_id).state, session_id>>,
                                 <<"mint", "create">>)
                           EXCEPT !.json = [redirect_url |-> github_auth_url(session_id),
                                            session_id |-> session_id]]]

Authorize ==
    /\ nextId <= MaxSessions
    /\ \E up \in BOOLEAN :
          LET r == authorize(store, nextId, clock, up)
          IN  /\ store' = r.store
              /\ minted' = minted \cup {r.session_id}
              /\ returned' = IF r.resp.status = 200
                             THEN returned \cup {r.session_id} ELSE returned
              /\ last' = r.resp
    /\ nextId' = nextId + 1
    /\ UNCHANGED <<clock, completed, inflight>>

\* ------------------------------------------------------ GET /callback
\* request.args.get(name, "")
args_get(param) == IF param.present THEN param.v ELSE Empty

\* requests.post(".../login/oauth/access_token") followed by
\* response.json().get("access_token"): what the identity provider answers
\* together with whether the store accepts the write that follows
IdpAnswers ==
    {[idp |-> a, tok |-> Empty, putUp |-> TRUE] :
        a \in {"transport_error", "not_json", "no_access_token"}}
        \cup {[idp |-> "ok", tok |-> t, putUp |-> up] : t \in AccessTokens, up \in BOOLEAN}

\* whether a request got as far as step `step`
Reached(resp, step) == \E i \in 1..Len(resp.steps) : resp.steps[i] = step

\* the parameter check with `and` for `or`
missing_parameter_both(state, code) == state = Empty /\ code = Empty

\* if not state or not code
missing_parameter(state, code) == state = Empty \/ code = Empty

callback(st, state_p, code_p, now, idp, tok, putUp) ==
    LET state == args_get(state_p)
        code == args_get(code_p)
        req == [NoReq EXCEPT !.state = state_p, !.code = code_p]
        verified == loads(state, now, MaxAge)
        session_secret == get_secret_value(st, state)
        access_token == IF idp = "ok" THEN Some(tok) ELSE None
        written == put_secret_value(st, state, access_token, putUp)
        envIdp == [NoEnv EXCEPT !.idp = idp, !.token = access_token]
        \* a None SecretString is refused by the client: the backend is not asked
        envPut == [envIdp EXCEPT !.put = IF access_token.isNone THEN "-"
                                         ELSE IF putUp THEN "ok" ELSE "fail"]
        R(env, status, msg, body, steps) ==
            Response("callback", req, env, now, status, msg, body, steps)
    IN  IF missing_parameter(state, code)
        THEN [store |-> st,
              resp |-> R(NoEnv, 400, "Missing state or code", <<>>, <<"params">>)]
        ELSE IF ~verified.ok
        THEN [store |-> st,
              resp |-> R(NoEnv, 401, "Invalid or expired state", <<>>,
                         <<"params", "verify">>)]
        ELSE IF session_secret.raised
        THEN [store |-> st,
              resp |-> R(NoEnv, 401, "Unauthorized: AWS Secret fetch failed", <<>>,
                         <<"params", "verify", "lookup">>)]
        ELSE IF "SecretString" \notin DOMAIN session_secret.secret
        THEN [store |-> st,
              resp |-> R(NoEnv, 401, "Invalid state", <<>>,
                         <<"params", "verify", "lookup">>)]
        ELSE IF idp = "transport_error"
        THEN [store |-> st,
              resp |-> R([NoEnv EXCEPT !.idp = idp], 401,
                         "GitHub access token fetch failed", <<>>,
                         <<"params", "verify", "lookup", "exchange">>)]
        ELSE IF idp = "not_json"
        \* response.json() raises outside any try: the framework answers 500
        THEN [store |-> st,
              resp |-> R([NoEnv EXCEPT !.idp = idp], 500,
                         "Internal Server Error", <<>>,
                         <<"params", "verify", "lookup", "exchange">>)]
        ELSE IF written.raised
        THEN [store |-> written.store,
              resp |-> R(envPut, 500, "AWS Secret update failed", <<>>,
                         <<"params", "verify", "lookup", "exchange", "put">>)]
        ELSE [store |-> written.store,
              resp |-> R(envPut, 200, "",
                         << <<"Authorization complete. Feel free to return to VSCode.">> >>,
                         <<"params", "verify", "lookup", "exchange", "put">>)]

\* what may arrive as `state`: a token the server minted (given out or
\* not), a given-out token with its timestamp moved to now, a token signed
\* under another key, or text that is no token at all
Retimed(t, now) == <<t[1], now, t[3]>>
SignedElsewhere(t, now) == <<t[1], now, Sign(OtherKey, t[1], now)>>
States(now) ==
    minted \cup {Retimed(t, now) : t \in returned}
           \cup {SignedElsewhere(t, now) : t \in returned} \cup {Garbage}

Params(S) == {Absent, Given(Empty)} \cup {Given(x) : x \in S}

\* the identity provider and the store answer only the requests that ask them
Callback ==
    /\ \E state_p \in Params(States(clock)), code_p \in Params(Codes) :
          LET early == callback(store, state_p, code_p, clock, "-", Empty, TRUE)
          IN  IF ~Reached(early.resp, "exchange")
              THEN /\ store' = early.store
                   /\ last' = early.resp
                   /\ UNCHANGED completed
              ELSE \E a \in IdpAnswers :
                      LET r == callback(store, state_p, code_p, clock, a.idp, a.tok, a.putUp)
                      IN  /\ store' = r.store
                          /\ last' = r.resp
                          /\ completed' = IF r.resp.status = 200
                                          THEN completed \cup {args_get(state_p)}
                                          ELSE completed
    /\ UNCHANGED <<clock, nextId, minted, returned, inflight>>

\* ------------------------------------------------------ auth_wrapper
\* str.split(" "): the pieces between spaces, each the text of its words
RECURSIVE split(_)
split(h) ==
    IF h = <<>> THEN << Empty >>
    ELSE LET rest == split(Tail(h))
         IN  IF Head(h) = Space
             THEN << Empty >> \o rest
             ELSE << Head(h) \o Head(rest) >> \o Tail(rest)

\* the prefix check accepting any scheme
startswithAnyScheme(h) == Len(h) >= 2 /\ h[2] = Space

\* auth_header.startswith("Bearer ")
startswithBearer(h) == Len(h) >= 2 /\ h[1] = Bearer /\ h[2] = Space

\* the value check without the comparison with "null"
no_access_token_only_empty(access_token) == access_token = Empty

\* if not access_token or access_token == "null"
no_access_token(access_token) == access_token = Empty \/ access_token = Sentinel

\* auth_wrapper running the bearer value through serializer.loads first
auth_wrapper_verifies_token(st, header) ==
    LET auth_header == header.v
        session_id == split(auth_header)[2]
        session_secret == get_secret_value(st, session_id)
        access_token == session_secret.secret.SecretString
        Fail(msg, steps) == [ok |-> FALSE, status |-> 401, msg |-> msg,
                             steps |-> steps, access_token |-> None]
    IN  IF ~header.present \/ auth_header = Empty \/ ~startswithBearer(auth_header)
        THEN Fail("Authorization header not found", <<"header">>)
        ELSE IF ~loads(session_id, clock, MaxAge).ok
        THEN Fail("Invalid or expired state", <<"header">>)
        ELSE IF session_secret.raised
        THEN Fail("Unauthorized: AWS Secret fetch failed", <<"header", "lookup">>)
        ELSE IF "SecretString" \notin DOMAIN session_secret.secret
        THEN Fail("Unauthorized: SecretString not found", <<"header", "lookup">>)
        ELSE IF no_access_token(access_token)
        THEN Fail("Unauthorized: access_token not found", <<"header", "lookup">>)
        ELSE [ok |-> TRUE, status |-> 200, msg |-> "",
              steps |-> <<"header", "lookup">>, access_token |-> Some(access_token)]

\* decorated_function up to the call of the wrapped handler
auth_wrapper(st, header) ==
    LET auth_header == header.v
        session_id == split(auth_header)[2]
        session_secret == get_secret_value(st, session_id)
        access_token == session_secret.secret.SecretString
        Fail(msg, steps) == [ok |-> FALSE, status |-> 401, msg |-> msg,
                             steps |-> steps, access_token |-> None]
    IN  IF ~header.present \/ auth_header = Empty \/ ~startswithBearer(auth_header)
        THEN Fail("Authorization header not found", <<"header">>)
        ELSE IF session_secret.raised
        THEN Fail("Unauthorized: AWS Secret fetch failed", <<"header", "lookup">>)
        ELSE IF "SecretString" \notin DOMAIN session_secret.secret
        THEN Fail("Unauthorized: SecretString not found", <<"header", "lookup">>)
        ELSE IF no_access_token(access_token)
        THEN Fail("Unauthorized: access_token not found", <<"header", "lookup">>)
        ELSE [ok |-> TRUE, status |-> 200, msg |-> "",
              steps |-> <<"header", "lookup">>, access_token |-> Some(access_token)]

\* headers a client may send
Headers ==
    {Absent, Given(Empty), Given(<<Bearer, Space>>)}
        \cup {Given(<<Bearer, Space, k>>) : k \in returned \cup {Garbage}}
        \cup {Given(<< <<"Basic">>, Space, k>>) : k \in returned}
        \cup {Given(<< <<"Bearergarbage">> >>)}

\* ---------------------------------------------- GET /check-authorization
check_authorization(st, header, now) ==
    LET v == auth_wrapper(st, header)
        req == [NoReq EXCEPT !.header = header]
    IN  IF ~v.ok
        THEN Response("check-authorization", req, NoEnv, now, v.status, v.msg,
                      <<>>, v.steps)
        ELSE [Response("check-authorization", req, NoEnv, now, 200, "",
                       << <<"Success">> >>, v.steps \o <<"handler">>)
                EXCEPT !.handlerRan = TRUE, !.g_access_token = v.access_token]

CheckAuthorization ==
    /\ \E header \in Headers : last' = check_authorization(store, header, clock)
    /\ UNCHANGED <<clock, store, nextId, minted, returned, completed, inflight>>

\* ------------------------------------- GET /repos/<owner>/<repo>/files
UpstreamAnswers ==
    {[repo |-> r, branch |-> "-"] : r \in {"network_error", "no_default_branch"}}
        \cup {[repo |-> "ok", branch |-> b] : b \in {"network_error", "no_commit_sha", "ok"}}

\* get_repo returning the wrong variable: the access token for the commit sha
get_repo_returns_access_token(access_token, repo, branch, default_branch, sha) ==
    LET first == [api |-> "repos/{owner}/{repo}", branch |-> Empty,
                  authorization |-> None]
        second == [api |-> "repos/{owner}/{repo}/branches/{default_branch}",
                   branch |-> default_branch, authorization |-> access_token]
    IN  IF repo # "ok"
        THEN [status |-> 500, msg |-> "GitHub repo fetch failed", body |-> <<>>,
              upstream |-> <<first>>, env |-> [NoEnv EXCEPT !.repo = repo]]
        ELSE IF branch # "ok"
        THEN [status |-> 500, msg |-> "GitHub repo fetch failed", body |-> <<>>,
              upstream |-> <<first, second>>,
              env |-> [NoEnv EXCEPT !.repo = repo, !.branch = branch,
                                    !.default_branch = default_branch]]
        ELSE [status |-> 200, msg |-> "", body |-> <<access_token.v>>,
              upstream |-> <<first, second>>,
              env |-> [NoEnv EXCEPT !.repo = repo, !.branch = branch,
                                    !.default_branch = default_branch, !.sha = sha]]

\* get_repo returning the branch name where the commit sha belongs
get_repo_returns_branch(access_token, repo, branch, default_branch, sha) ==
    LET first == [api |-> "repos/{owner}/{repo}", branch |-> Empty,
                  authorization |-> None]
        second == [api |-> "repos/{owner}/{repo}/branches/{default_branch}",
                   branch |-> default_branch, authorization |-> access_token]
    IN  IF repo # "ok"
        THEN [status |-> 500, msg |-> "GitHub repo fetch failed", body |-> <<>>,
              upstream |-> <<first>>, env |-> [NoEnv EXCEPT !.repo = repo]]
        ELSE IF branch # "ok"
        THEN [status |-> 500, msg |-> "GitHub repo fetch failed", body |-> <<>>,
              upstream |-> <<first, second>>,
              env |-> [NoEnv EXCEPT !.repo = repo, !.branch = branch,
                                    !.default_branch = default_branch]]
        ELSE [status |-> 200, msg |-> "", body |-> <<default_branch>>,
              upstream |-> <<first, second>>,
              env |-> [NoEnv EXCEPT !.repo = repo, !.branch = branch,
                                    !.default_branch = default_branch, !.sha = sha]]

\* get_repo passing `headers` to both upstream calls
get_repo_authenticates_both(access_token, repo, branch, default_branch, sha) ==
    LET first == [api |-> "repos/{owner}/{repo}", branch |-> Empty,
                  authorization |-> access_token]
        second == [api |-> "repos/{owner}/{repo}/branches/{default_branch}",
                   branch |-> default_branch, authorization |-> access_token]
    IN  IF repo # "ok"
        THEN [status |-> 500, msg |-> "GitHub repo fetch failed", body |-> <<>>,
              upstream |-> <<first>>, env |-> [NoEnv EXCEPT !.repo = repo]]
        ELSE IF branch # "ok"
        THEN [status |-> 500, msg |-> "GitHub repo fetch failed", body |-> <<>>,
              upstream |-> <<first, second>>,
              env |-> [NoEnv EXCEPT !.repo = repo, !.branch = branch,
                                    !.default_branch = default_branch]]
        ELSE [status |-> 200, msg |-> "", body |-> <<sha>>,
              upstream |-> <<first, second>>,
              env |-> [NoEnv EXCEPT !.repo = repo, !.branch = branch,
                                    !.default_branch = default_branch, !.sha = sha]]

\* the wrapped handler: g.pop("access_token"), then the two upstream calls
get_repo(access_token, repo, branch, default_branch, sha) ==
    LET first == [api |-> "repos/{owner}/{repo}", branch |-> Empty,
                  authorization |-> None]
        second == [api |-> "repos/{owner}/{repo}/branches/{default_branch}",
                   branch |-> default_branch, authorization |-> access_token]
    IN  IF repo # "ok"
        THEN [status |-> 500, msg |-> "GitHub repo fetch failed", body |-> <<>>,
              upstream |-> <<first>>, env |-> [NoEnv EXCEPT !.repo = repo]]
        ELSE IF branch # "ok"
        THEN [status |-> 500, msg |-> "GitHub repo fetch failed", body |-> <<>>,
              upstream |-> <<first, second>>,
              env |-> [NoEnv EXCEPT !.repo = repo, !.branch = branch,
                                    !.default_branch = default_branch]]
        ELSE [status |-> 200, msg |-> "", body |-> <<sha>>,
              upstream |-> <<first, second>>,
              env |-> [NoEnv EXCEPT !.repo = repo, !.branch = branch,
                                    !.default_branch = default_branch, !.sha = sha]]

repo_files(st, header, now, repo, branch, default_branch, sha) ==
    LET v == auth_wrapper(st, header)
        req == [NoReq EXCEPT !.header = header]
        h == get_repo(v.access_token, repo, branch, default_branch, sha)
    IN  IF ~v.ok
        THEN Response("repos/files", req, NoEnv, now, v.status, v.msg, <<>>, v.steps)
        ELSE [Response("repos/files", req, h.env, now, h.status, h.msg, h.body,
                       v.steps \o <<"handler">>)
                EXCEPT !.handlerRan = TRUE, !.g_access_token = v.access_token,
                       !.upstream = h.upstream]

GetRepo ==
    /\ \E header \in Headers :
          IF ~auth_wrapper(store, header).ok
          THEN last' = repo_files(store, header, clock, "-", "-", Empty, Empty)
          ELSE \E a \in UpstreamAnswers, default_branch \in Branches, sha \in CommitShas :
                  last' = repo_files(store, header, clock, a.repo, a.branch,
                                     default_branch, sha)
    /\ UNCHANGED <<clock, store, nextId, minted, returned, completed, inflight>>

Next == Tick \/ Authorize \/ Callback \/ CheckAuthorization \/ GetRepo

Spec == Init /\ [][Next]_vars

\* ------------------------------------------- requests taken call by call
\* A worker handles one request at a time.  /callback: the parameter check
\* and serializer.loads are local and happen when the request arrives; then
\* get_secret_value, requests.post and put_secret_value are one step each.
\* An authenticated endpoint: the header check on arrival, then
\* get_secret_value and the rest of the request in one step.
CallbackReq(key) == [NoReq EXCEPT !.state = Given(key), !.code = Given(<<"validcode">>)]

CallbackResponse(key, env, now, status, msg, body, n) ==
    Response("callback", CallbackReq(key), env, now, status, msg, body,
             SubSeq(<<"params", "verify", "lookup", "exchange", "put">>, 1, n))

\* lines 82-91: a request arrives; it is answered at once when the state
\* check refuses it, else the worker goes on to the record lookup
CbBegin(w) ==
    /\ inflight[w] = Idle
    /\ \E s \in returned :
          LET early == callback(store, Given(s), Given(<<"validcode">>), clock,
                                "-", Empty, TRUE)
          IN  IF ~Reached(early.resp, "lookup")
              THEN /\ last' = early.resp
                   /\ UNCHANGED inflight
              ELSE /\ inflight' = [inflight EXCEPT ![w] =
                                     [kind |-> "callback", key |-> s,
                                      pc |-> "lookup", token |-> None]]
                   /\ UNCHANGED last
    /\ UNCHANGED <<clock, store, nextId, minted, returned, completed>>

\* lines 93-99
CbLookup(w) ==
    /\ inflight[w].kind = "callback" /\ inflight[w].pc = "lookup"
    /\ LET session_secret == get_secret_value(store, inflight[w].key)
       IN  IF session_secret.raised
           THEN /\ last' = CallbackResponse(inflight[w].key, NoEnv, clock, 401,
                                             "Unauthorized: AWS Secret fetch failed",
                                             <<>>, 3)
                /\ inflight' = [inflight EXCEPT ![w] = Idle]
           ELSE /\ inflight' = [inflight EXCEPT ![w].pc = "exchange"]
                /\ UNCHANGED last
    /\ UNCHANGED <<clock, store, nextId, minted, returned, completed>>

\* the access token of the user who authorized the session with uuid `id`:
\* the code a browser brings back with a state was issued for that state
TokenOf(id) == <<"tok", id>>

\* lines 116-123: the exchange fails in transport, answers without
\* access_token, or answers the access token that belongs to the code
CbExchange(w) ==
    /\ inflight[w].kind = "callback" /\ inflight[w].pc = "exchange"
    /\ \/ /\ last' = CallbackResponse(inflight[w].key,
                                       [NoEnv EXCEPT !.idp = "transport_error"], clock,
                                       401, "GitHub access token fetch failed", <<>>, 4)
          /\ inflight' = [inflight EXCEPT ![w] = Idle]
       \/ /\ inflight' = [inflight EXCEPT ![w].pc = "put"]
          /\ UNCHANGED last
       \/ /\ inflight' = [inflight EXCEPT ![w].pc = "put",
                                          ![w].token = Some(TokenOf(inflight[w].key[1]))]
          /\ UNCHANGED last
    /\ UNCHANGED <<clock, store, nextId, minted, returned, completed>>

\* lines 125-130
CbPut(w) ==
    /\ inflight[w].kind = "callback" /\ inflight[w].pc = "put"
    /\ \E up \in BOOLEAN :
          LET key == inflight[w].key
              access_token == inflight[w].token
              written == put_secret_value(store, key, access_token, up)
              env == [NoEnv EXCEPT
                        !.idp = IF access_token.isNone THEN "no_access_token" ELSE "ok",
                        !.token = access_token,
                        !.put = IF access_token.isNone THEN "-"
                                ELSE IF up THEN "ok" ELSE "fail"]
          IN  /\ store' = written.store
              /\ last' = IF written.raised
                         THEN CallbackResponse(key, env, clock, 500,
                                               "AWS Secret update failed", <<>>, 5)
                         ELSE CallbackResponse(key, env, clock, 200, "",
                                 << <<"Authorization complete. Feel free to return to VSCode.">> >>, 5)
              /\ completed' = IF written.raised THEN completed
                              ELSE completed \cup {key}
    /\ inflight' = [inflight EXCEPT ![w] = Idle]
    /\ UNCHANGED <<clock, nextId, minted, returned>>

\* lines 136-139
VfBegin(w) ==
    /\ inflight[w] = Idle
    /\ \E header \in {Given(<<Bearer, Space, k>>) : k \in returned} :
          IF ~header.present \/ header.v = Empty \/ ~startswithBearer(header.v)
          THEN /\ last' = check_authorization(store, header, clock)
               /\ UNCHANGED inflight
          ELSE /\ inflight' = [inflight EXCEPT ![w] =
                                  [kind |-> "verify", key |-> split(header.v)[2],
                                   pc |-> "lookup", token |-> None]]
               /\ UNCHANGED last
    /\ UNCHANGED <<clock, store, nextId, minted, returned, completed>>

\* lines 141-154 and the handler of /check-authorization
VfLookup(w) ==
    /\ inflight[w].kind = "verify" /\ inflight[w].pc = "lookup"
    /\ last' = check_authorization(store, Given(<<Bearer, Space, inflight[w].key>>), clock)
    /\ inflight' = [inflight EXCEPT ![w] = Idle]
    /\ UNCHANGED <<clock, store, nextId, minted, returned, completed>>

NextC ==
    \/ Tick
    \/ Authorize
    \/ \E w \in Workers :
          CbBegin(w) \/ CbLookup(w) \/ CbExchange(w) \/ CbPut(w)
              \/ VfBegin(w) \/ VfLookup(w)

SpecC == Init /\ [][NextC]_vars

\* ====================================================== properties
AuthEndpoints == {"check-authorization", "repos/files"}
BearerHeader(k) == Given(<<Bearer, Space, k>>)
CompletionMessage == << <<"Authorization complete. Feel free to return to VSCode.">> >>

\* the token was minted at most MaxAge seconds before the request of `last`
Fresh(k) == last.now - k[2] <= MaxAge

\* C1: a session whose record still holds the sentinel "null" gets 401 from
\* every authenticated endpoint it is presented to as `Bearer <session_id>`.
C1_SentinelUnauthorized ==
    \A k \in returned :
        (/\ last.endpoint \in AuthEndpoints
         /\ last.req.header = BearerHeader(k)
         /\ store[k].SecretString = Sentinel)
        => (last.status = 401 /\ ~last.handlerRan)

\* scenario A: the session was created this very second and is asked for
C1_Witness ==
    \E k \in returned :
        /\ last.endpoint = "check-authorization"
        /\ last.req.header = BearerHeader(k)
        /\ store[k].SecretString = Sentinel
        /\ last.now = k[2]
        /\ last.status = 401

\* C2: a callback with a returned, still fresh state and a code, whose
\* exchange yields access token t and whose store write succeeds, answers 200
\* with the completion message and leaves t in the record of the session;
\* from then on /check-authorization with that bearer answers 200 "Success".
C2_CallbackCompletes ==
    /\ \A k \in returned :
          (/\ last.endpoint = "callback"
           /\ last.req.state = Given(k)
           /\ last.req.code.present /\ last.req.code.v # Empty
           /\ Fresh(k))
          => \/ /\ last.status = 200
                /\ last.body = CompletionMessage
                /\ last.env.idp = "ok" /\ last.env.put = "ok"
                /\ store[k].SecretString = last.env.token.v
             \/ last.env.idp \in {"transport_error", "not_json", "no_access_token"}
             \/ last.env.idp = "ok" /\ last.env.put = "fail"
    /\ \A k \in completed :
          (last.endpoint = "check-authorization" /\ last.req.header = BearerHeader(k))
          => (last.status = 200 /\ last.body = << <<"Success">> >>)

\* scenario B, the session still accepted MaxAge seconds after the mint
C2_Witness ==
    \E k \in completed :
        /\ last.endpoint = "check-authorization"
        /\ last.req.header = BearerHeader(k)
        /\ last.status = 200
        /\ k[2] = 0 /\ last.now = MaxAge
        /\ store[k].SecretString \in AccessTokens

\* C3: a callback whose state or code is absent or empty answers 400,
\* whatever the other parameter is.
C3_MissingParameter ==
    (/\ last.endpoint = "callback"
     /\ \/ ~last.req.state.present \/ last.req.state.v = Empty
        \/ ~last.req.code.present \/ last.req.code.v = Empty)
    => (last.status = 400 /\ last.msg = "Missing state or code")

\* a valid fresh state of a live session, and no code
C3_Witness ==
    \E k \in returned :
        /\ last.endpoint = "callback"
        /\ last.req.state = Given(k) /\ Fresh(k)
        /\ ~last.req.code.present
        /\ last.status = 400

\* C4: with both parameters present, a callback answers 401 whenever the state
\* is not a token this server minted or was minted more than MaxAge seconds
\* ago, and goes past the state check only for a minted token of age <= MaxAge.
C4_StateCheck ==
    (/\ last.endpoint = "callback"
     /\ last.req.state.present /\ last.req.state.v # Empty
     /\ last.req.code.present /\ last.req.code.v # Empty)
    => LET s == last.req.state.v
       IN  /\ (s \notin minted \/ ~Fresh(s))
                 => (last.status = 401 /\ ~Reached(last, "lookup"))
           /\ Reached(last, "lookup") => (s \in minted /\ Fresh(s))

\* a minted token presented one second too late
C4_Witness ==
    \E k \in returned :
        /\ last.endpoint = "callback"
        /\ last.req.state = Given(k)
        /\ last.req.code.present /\ last.req.code.v # Empty
        /\ last.now - k[2] = MaxAge + 1
        /\ last.status = 401 /\ last.msg = "Invalid or expired state"

\* C5: once the state is verified and the record found, a callback whose
\* code-for-token exchange fails (transport exception, body that is not JSON,
\* response without access_token) fails with UpstreamExchangeFailed.
C5_ExchangeFailure ==
    (/\ last.endpoint = "callback"
     /\ Reached(last, "exchange")
     /\ last.env.idp \in {"transport_error", "not_json", "no_access_token"})
    => (last.status = 401 /\ last.msg = "GitHub access token fetch failed")

\* C6: the value of a record changes at most once, from the sentinel to an
\* access token: a record that holds an access token is never changed again.
C6_MutatedOnce ==
    [][\A k \in DOMAIN store :
          store[k].SecretString # Sentinel => store'[k] = store[k]]_vars

\* C7 as stated: a record exists under k exactly when k has been minted.
C7_RecordIffMinted == DOMAIN store = minted

\* C7, amended: a record exists under k exactly when k was minted by a
\* POST /authorize whose create_secret succeeded, which are the session_ids
\* returned to clients; a token minted by a request whose create_secret
\* failed has no record; only POST /authorize ever adds or removes a key.
C7_RecordIffCreated ==
    /\ [](DOMAIN store = returned /\ returned \subseteq minted)
    /\ [][DOMAIN store' # DOMAIN store
            => (/\ last'.endpoint = "authorize"
                /\ last'.status = 200
                /\ DOMAIN store' = DOMAIN store \cup {last'.json.session_id})]_vars

\* one authorize failed at create_secret, another succeeded
C7_Witness ==
    /\ minted \ returned # {}
    /\ returned # {}
    /\ DOMAIN store = returned

\* C8: POST /authorize answers {redirect_url, session_id} only if the same
\* request created the record session_id -> "null", and the state in
\* redirect_url is session_id; if create_secret fails it answers 500 with no
\* session_id and no redirect URL.
C8_AuthorizeResponse ==
    [][nextId' # nextId
         => /\ last'.endpoint = "authorize"
            /\ IF last'.status = 200
               THEN LET sid == last'.json.session_id
                    IN  /\ sid \notin DOMAIN store
                        /\ sid \in DOMAIN store'
                        /\ store'[sid].SecretString = Sentinel
                        /\ last'.json.redirect_url.state = sid
                        /\ sid \in minted' \ minted
                        /\ last'.env.create = "ok"
               ELSE /\ last'.status = 500
                    /\ last'.env.create = "fail"
                    /\ last'.json = NoJson /\ last'.body = <<>>
                    /\ store' = store]_vars

\* a 200 answer of /authorize and the record it created
C8_Witness ==
    /\ last.endpoint = "authorize"
    /\ last.status = 200
    /\ last.json.session_id \in DOMAIN store
    /\ store[last.json.session_id].SecretString = Sentinel
    /\ last.json.redirect_url.state = last.json.session_id

\* the access tokens the store holds
StoredAccessTokens ==
    {store[k].SecretString : k \in DOMAIN store} \ {Sentinel}

\* C9: no response body, of any endpoint, success or error, carries an
\* access token held in the store.
C9_TokenNeverReturned ==
    /\ \A i \in 1..Len(last.body) : last.body[i] \notin StoredAccessTokens
    /\ last.json.session_id \notin StoredAccessTokens
    /\ last.json.redirect_url.state \notin StoredAccessTokens

\* the proxy endpoint answered 200 for a session whose record holds a token
C9_Witness ==
    \E k \in completed :
        /\ last.endpoint = "repos/files"
        /\ last.req.header = BearerHeader(k)
        /\ last.status = 200
        /\ last.body \in {<<c>> : c \in CommitShas}
        /\ store[k].SecretString \in AccessTokens

\* the bearer value of a header: what follows "Bearer " up to the next space
BearerValue(h) == IF Len(h.v) >= 3 THEN h.v[3] ELSE Empty
WellFormed(h) == h.present /\ Len(h.v) >= 2 /\ h.v[1] = Bearer /\ h.v[2] = Space
Resolves(h) ==
    /\ WellFormed(h)
    /\ BearerValue(h) \in DOMAIN store
    /\ store[BearerValue(h)].SecretString \notin {Sentinel, Empty}

\* C10: the handler of an authenticated endpoint runs only when Verify
\* succeeded in that request, with the per-request access token equal to the
\* record's value; otherwise the answer is 401 and nothing is sent upstream.
C10_HandlerOnlyVerified ==
    last.endpoint \in AuthEndpoints
    => LET h == last.req.header
       IN  /\ last.handlerRan
                => (/\ Resolves(h)
                    /\ last.g_access_token = Some(store[BearerValue(h)].SecretString))
           /\ ~Resolves(h)
                => (/\ last.status = 401
                    /\ ~last.handlerRan
                    /\ last.upstream = <<>>
                    /\ last.g_access_token = None)

\* a completed session presented under another scheme: 401, nothing upstream
C10_Witness ==
    \E k \in completed :
        /\ last.endpoint = "repos/files"
        /\ last.req.header = Given(<< <<"Basic">>, Space, k >>)
        /\ store[k].SecretString \in AccessTokens
        /\ last.status = 401
        /\ last.upstream = <<>>

\* C11: /repos/{owner}/{repo}/files with a verified session answers the tip
\* commit sha of the default branch when both upstream calls succeed, and
\* 500 UpstreamFetchFailed when either fails (network error, missing field).
C11_RepoFiles ==
    (last.endpoint = "repos/files" /\ last.handlerRan)
    => /\ last.env.repo # "-"
       /\ IF last.env.repo = "ok" /\ last.env.branch = "ok"
          THEN /\ last.status = 200
               /\ last.body = <<last.env.sha>>
               /\ last.env.sha \in CommitShas
          ELSE /\ last.status = 500
               /\ last.msg = "GitHub repo fetch failed"
               /\ last.body = <<>>

\* scenario D: default_branch "main", commit sha "abc123"
C11_Witness ==
    /\ last.endpoint = "repos/files"
    /\ last.handlerRan
    /\ last.env.default_branch = <<"main">>
    /\ last.status = 200
    /\ last.body = << <<"abc123">> >>

\* C13: Verify applies neither the signature check nor the age limit: a
\* well-formed bearer is accepted exactly when it is the key of a record that
\* holds an access token, however long ago the token was minted.
C13_VerifyIgnoresAge ==
    (last.endpoint \in AuthEndpoints /\ WellFormed(last.req.header))
    => (last.handlerRan <=> Resolves(last.req.header))

\* a session accepted MaxAge + 1 seconds after its token was minted
C13_Witness ==
    \E k \in completed :
        /\ last.endpoint = "check-authorization"
        /\ last.req.header = BearerHeader(k)
        /\ last.now - k[2] = MaxAge + 1
        /\ last.status = 200

CallbackOrder == <<"params", "verify", "lookup", "exchange", "put">>

\* C14: a callback runs parameter check, state verification, record lookup,
\* code exchange, record write in this order and stops at the first failure:
\* the identity provider is asked only for a present, valid, fresh state that
\* has a record, and the store is written only after a successful exchange.
C14_CallbackOrder ==
    /\ [](last.endpoint = "callback"
            => /\ last.steps = SubSeq(CallbackOrder, 1, Len(last.steps))
               /\ (last.env.idp # "-") <=> Reached(last, "exchange")
               /\ Reached(last, "exchange")
                    => LET s == args_get(last.req.state)
                       IN  /\ s # Empty /\ args_get(last.req.code) # Empty
                           /\ s \in minted /\ Fresh(s)
                           /\ s \in DOMAIN store
               /\ (last.env.put # "-") => last.env.idp = "ok"
               /\ (last.status = 200) <=> (last.env.idp = "ok" /\ last.env.put = "ok"))
    /\ [][(last'.endpoint = "callback" /\ store' # store)
            => (last'.env.idp = "ok" /\ last'.env.put = "ok")]_vars

\* a validly signed, fresh state that has no record: stopped at the lookup
C14_Witness ==
    /\ last.endpoint = "callback"
    /\ last.steps = <<"params", "verify", "lookup">>
    /\ args_get(last.req.state) \in minted \ DOMAIN store
    /\ last.env.idp = "-"
    /\ last.status = 401

\* C15: in /repos/{owner}/{repo}/files the access token goes upstream only
\* in the second call, which is made only after the first call returned a
\* default branch; a failed first call ends the request with no token sent.
C15_TokenOnlyInSecondCall ==
    (last.endpoint = "repos/files" /\ last.handlerRan)
    => /\ Len(last.upstream) \in {1, 2}
       /\ last.upstream[1].authorization = None
       /\ (Len(last.upstream) = 2) <=> (last.env.repo = "ok")
       /\ Len(last.upstream) = 2
            => /\ last.upstream[2].authorization = last.g_access_token
               /\ last.upstream[2].branch = last.env.default_branch
               /\ last.env.default_branch \in Branches

\* the repository info call failed: one call, without the token
C15_Witness ==
    \E k \in completed :
        /\ last.endpoint = "repos/files"
        /\ last.req.header = BearerHeader(k)
        /\ last.handlerRan
        /\ last.env.repo = "network_error"
        /\ Len(last.upstream) = 1
        /\ last.status = 500

\* C16: a record that holds an access token never goes back to the sentinel
\* and is never removed, so Verify for its session keeps succeeding.
C16_Monotonic ==
    [][\A k \in DOMAIN store :
          Resolves(BearerHeader(k)) => Resolves(BearerHeader(k))']_vars

\* a failing callback for a session that had completed
C16_Witness ==
    \E k \in completed :
        /\ last.endpoint = "callback"
        /\ last.req.state = Given(k)
        /\ last.status = 500
        /\ store[k].SecretString \in AccessTokens

\* C17: the store changes only by a successful create of POST /authorize and
\* a successful put of GET /callback: a callback that answers an error and
\* any request to an authenticated endpoint leave every record as it was.
C17_StoreFrame ==
    [][store' # store
         => \/ /\ last'.endpoint = "authorize"
               /\ last'.status = 200 /\ last'.env.create = "ok"
            \/ /\ last'.endpoint = "callback"
               /\ last'.status = 200 /\ last'.env.put = "ok"]_vars

\* a callback refused by the store: 500 and the record still the sentinel
C17_Witness ==
    \E k \in returned :
        /\ last.endpoint = "callback"
        /\ last.req.state = Given(k)
        /\ last.env.put = "fail"
        /\ last.status = 500
        /\ store[k].SecretString = Sentinel

\* the callback that worker w handles has reached put_secret_value for k
Putting(w, k) ==
    inflight[w].kind = "callback" /\ inflight[w].key = k /\ inflight[w].pc = "put"

\* C12: under any interleaving of the steps of concurrent requests, a
\* record changes only by the put of a callback that carries its own key,
\* which writes the token exchanged in that callback; the Verify of a
\* request that carries key B answers with the value of record B; so no
\* record ever holds, and no Verify ever yields, the token of another session.
C12_Isolated ==
    /\ [](\A k \in DOMAIN store :
             store[k].SecretString \in {Sentinel, TokenOf(k[1])})
    /\ []((last.endpoint = "check-authorization" /\ last.status = 200)
             => \E k \in returned :
                   /\ last.req.header = BearerHeader(k)
                   /\ last.g_access_token = Some(TokenOf(k[1])))
    /\ [][\A k \in DOMAIN store :
             store'[k] # store[k]
                => \E w \in Workers :
                      /\ Putting(w, k)
                      /\ inflight'[w] = Idle
                      /\ store'[k].SecretString = inflight[w].token.v]_vars
    /\ [][\A w \in Workers :
             (inflight[w].kind = "verify" /\ inflight'[w] = Idle
                 /\ last'.status = 200)
                => /\ last'.req.header = BearerHeader(inflight[w].key)
                   /\ last'.g_access_token
                         = Some(store[inflight[w].key].SecretString)]_vars

\* Verify for B answered with B's token while a callback for another
\* session A, holding A's token, is about to write
C12_Witness ==
    \E A \in returned, B \in returned, w \in Workers :
        /\ A # B
        /\ Putting(w, A)
        /\ inflight[w].token = Some(TokenOf(A[1]))
        /\ store[A].SecretString = Sentinel
        /\ store[B].SecretString = TokenOf(B[1])
        /\ last.endpoint = "check-authorization"
        /\ last.req.header = BearerHeader(B)
        /\ last.status = 200
        /\ last.g_access_token = Some(TokenOf(B[1]))

\* no access token was written to record k within MaxAge seconds of minting
Unwritten(k) ==
    /\ k \in DOMAIN store
    /\ store[k].SecretString = Sentinel
    /\ clock - k[2] > MaxAge

\* the response of this step belongs to a request for session k
AnswersFor(k) ==
    /\ last' # last
    /\ \/ last'.req.state = Given(k)
       \/ last'.req.header = BearerHeader(k)

\* such a request is refused: a callback at the state check, others with 401
Refused ==
    /\ last'.status = 401
    /\ last'.endpoint = "callback" => last'.steps = <<"params", "verify">>

\* the request answered in this step was not in flight before it
Arrives(k) ==
    \A w \in Workers : ~(inflight[w].kind = "callback" /\ inflight[w].key = k
                            /\ inflight'[w] = Idle)

\* C18 as stated: a session with no access token written within MaxAge
\* seconds of minting never completes: its record keeps the sentinel
\* forever and every request for it that arrives later is refused.
C18_NeverCompletes ==
    [][\A k \in DOMAIN store :
          Unwritten(k) => /\ Unwritten(k)'
                          /\ (AnswersFor(k) /\ Arrives(k)) => Refused]_vars

\* Unwritten, and no callback for k that passed the state check is in flight
Stalled(k) ==
    /\ Unwritten(k)
    /\ \A w \in Workers : ~(inflight[w].kind = "callback" /\ inflight[w].key = k)

\* C18, amended: a session with no access token written within MaxAge
\* seconds of minting and no callback still in flight that passed the state
\* check never completes: its record keeps the sentinel, every later
\* callback for it is refused at the state check, and every authenticated
\* request with its token is answered 401.
C18_StalledNeverCompletes ==
    [][\A k \in DOMAIN store :
          Stalled(k) => /\ Stalled(k)'
                        /\ AnswersFor(k) => Refused]_vars

\* a callback refused at the state check for a stalled session
C18_Witness ==
    \E k \in returned :
        /\ Stalled(k)
        /\ last.endpoint = "callback"
        /\ last.req.state = Given(k)
        /\ last.status = 401
        /\ last.msg = "Invalid or expired state"
        /\ last.now - k[2] > MaxAge
====
